---- MODULE Spec2Model ----
(***************************************************************************)
(* Model of autoguillotine (src/src/main.rs): the two line-difference      *)
(* profilers and the recursive, fork-join partitioner `guillotine`.        *)
(*                                                                         *)
(* An image is a record [width, height, data]; data is the row-major pixel *)
(* buffer, data[y + 1][x + 1] being the pixel at (x, y).  A pixel is an    *)
(* Rgb<u8>: a triple of channels in 0 .. ChannelMax.                       *)
(*                                                                         *)
(* A dissimilarity score is the f64  sum / len / 3.0  computed by          *)
(* average_difference.  It is kept as the exact pair [sum, len]; scores    *)
(* are compared by cross-multiplication.  For the line lengths of any real *)
(* image (far below 2^20) two such quotients are equal, or ordered, as     *)
(* f64 values exactly when they are as rationals, so the comparisons of    *)
(* the code are reproduced exactly.                                        *)
(***************************************************************************)
EXTENDS Integers, Sequences, FiniteSets, TLC

\* ---------------------------------------------------------------- bounds
MaxWidth == 5
MaxHeight == 4
MaxPixels == 10
MaxMinSize == 3

\* ------------------------------------------------------ program constants
ChannelMax == 255
Channels == 3
MainThreshold == 30
MainMinSize == 100

Black == <<0, 0, 0>>
White == <<ChannelMax, ChannelMax, ChannelMax>>
Palette == {Black, White}

\* The thresholds tried: the one main passes, and one that only a nearly full
\* change of colour between two lines exceeds.
Thresholds == {MainThreshold, 200}

\* ---------------------------------------------------------------- images
Abs(n) == IF n < 0 THEN -n ELSE n

GetPixel(image, x, y) == image.data[y + 1][x + 1]

\* The full row y, left to right (what difference_horizontal gathers in `new`).
Row(image, y) == [i \in 1 .. image.width |-> GetPixel(image, i - 1, y)]

\* The full column x, top to bottom (what difference_vertical gathers in `new`).
Column(image, x) == [i \in 1 .. image.height |-> GetPixel(image, x, i - 1)]

\* image.sub_image(x, y, w, h).to_image(): an independent copy of the region.
SubImage(image, x, y, w, h) ==
  [width |-> w, height |-> h,
   data |-> [r \in 1 .. h |-> [c \in 1 .. w |-> GetPixel(image, x + c - 1, y + r - 1)]]]

\* ------------------------------------------------------------- profilers
RECURSIVE ChannelSum(_, _, _)
ChannelSum(p, q, channel) ==
  IF channel = 0 THEN 0
  ELSE Abs(p[channel] - q[channel]) + ChannelSum(p, q, channel - 1)

\* The loop of average_difference over indexes lo .. hi.  Every partial sum is
\* an integer below 2^53, so the f64 additions are exact and their order does
\* not matter; the range is halved only to keep the evaluation shallow.
RECURSIVE LineSum(_, _, _, _)
LineSum(old, new, lo, hi) ==
  IF lo > hi THEN 0
  ELSE IF lo = hi THEN ChannelSum(old[lo], new[lo], Channels)
  ELSE LET mid == (lo + hi) \div 2
       IN  LineSum(old, new, lo, mid) + LineSum(old, new, mid + 1, hi)

\* The score  value / old.len() / 3.0, as the exact pair [sum, len].
AverageDifference(old, new) == [sum |-> LineSum(old, new, 1, Len(old)), len |-> Len(old)]

\* a > b on two scores.
ScoreGT(a, b) == a.sum * b.len > b.sum * a.len

\* ord_subset_max_by_key over values.iter().enumerate(): the place of the
\* maximum among places lo .. hi.  The library's scan keeps the best element so
\* far and replaces it by a later one whenever that one is not smaller, so of
\* several equally maximum scores the rightmost wins; the same place is found
\* here by halving the range (to keep the evaluation shallow) and preferring
\* the right half unless the left one is strictly greater.  Places are
\* 1-based; 0 stands for None (an empty list).
RECURSIVE MaxFirstIn(_, _, _)
MaxFirstIn(values, lo, hi) ==
  IF lo > hi THEN 0
  ELSE IF lo = hi THEN lo
  ELSE LET mid == (lo + hi) \div 2
           left == MaxFirstIn(values, lo, mid)
           right == MaxFirstIn(values, mid + 1, hi)
       IN  IF ScoreGT(values[right], values[left]) THEN right ELSE left

OrdSubsetMaxFirst(values) == MaxFirstIn(values, 1, Len(values))

RECURSIVE MaxIn(_, _, _)
MaxIn(values, lo, hi) ==
  IF lo > hi THEN 0
  ELSE IF lo = hi THEN lo
  ELSE LET mid == (lo + hi) \div 2
           left == MaxIn(values, lo, mid)
           right == MaxIn(values, mid + 1, hi)
       IN  IF ScoreGT(values[left], values[right]) THEN left ELSE right

OrdSubsetMaxByKey(values) == MaxIn(values, 1, Len(values))

\* The scores difference_horizontal pushes for the row pairs lo .. hi (pair n
\* is rows n - 1 and n, counted from 0).
RECURSIVE HorizontalScores(_, _, _)
HorizontalScores(image, lo, hi) ==
  IF lo > hi THEN << >>
  ELSE IF lo = hi THEN << AverageDifference(Row(image, lo - 1), Row(image, lo)) >>
  ELSE LET mid == (lo + hi) \div 2
       IN  HorizontalScores(image, lo, mid) \o HorizontalScores(image, mid + 1, hi)

\* The score list of difference_horizontal: one score per adjacent row pair.
HorizontalValues(image) == HorizontalScores(image, 1, image.height - 1)

\* The scores difference_vertical pushes for the column pairs lo .. hi.
RECURSIVE VerticalScores(_, _, _)
VerticalScores(image, lo, hi) ==
  IF lo > hi THEN << >>
  ELSE IF lo = hi THEN << AverageDifference(Column(image, lo - 1), Column(image, lo)) >>
  ELSE LET mid == (lo + hi) \div 2
       IN  VerticalScores(image, lo, mid) \o VerticalScores(image, mid + 1, hi)

\* The score list of difference_vertical: one score per adjacent column pair.
VerticalValues(image) == VerticalScores(image, 1, image.width - 1)

\* .map(|(x, y)| (x as u32 + 1, *y)): the pair at Rust index x is the pair at
\* place x + 1 of the list, and the cut falls at x + 1.
CutAtNoPlusOne(place) == place - 1

CutAt(place) == place

NoScore == [sum |-> 0, len |-> 1]

\* (index, max) of a score list, or panicked when .unwrap() meets None.
MaxOf(values) ==
  LET place == OrdSubsetMaxByKey(values)
  IN  IF place = 0
      THEN [panicked |-> TRUE, index |-> 0, max |-> NoScore]
      ELSE [panicked |-> FALSE, index |-> CutAt(place), max |-> values[place]]

DifferenceHorizontal(image) == MaxOf(HorizontalValues(image))

DifferenceVertical(image) == MaxOf(VerticalValues(image))

\* ------------------------------------------------ guillotine, step by step
\* width < min_size || height < min_size
GateAnd(image, m) == image.width < m /\ image.height < m

GateInclusive(image, m) == image.width <= m \/ image.height <= m

TooSmall(image, m) == image.width < m \/ image.height < m

\* let horizontal = h_max > v_max;
HorizontalOnTie(h_max, v_max) == ~ScoreGT(v_max, h_max)

Horizontal(h_max, v_max) == ScoreGT(h_max, v_max)

\* let cut = max > threshold;
CutBelow(max, t) == max.sum < t * max.len * Channels

Cut(max, t) == max.sum > t * max.len * Channels

\* The two sub images, each with the offset of its region in `image`.
SubImagesSkipLine(image, horizontal, h_index, v_index) ==
  IF horizontal
  THEN << [image |-> SubImage(image, 0, 0, image.width, h_index), dx |-> 0, dy |-> 0],
          [image |-> SubImage(image, 0, h_index + 1, image.width, image.height - h_index - 1),
           dx |-> 0, dy |-> h_index + 1] >>
  ELSE << [image |-> SubImage(image, 0, 0, v_index, image.height), dx |-> 0, dy |-> 0],
          [image |-> SubImage(image, v_index + 1, 0, image.width - v_index - 1, image.height),
           dx |-> v_index + 1, dy |-> 0] >>

SubImages(image, horizontal, h_index, v_index) ==
  IF horizontal
  THEN << [image |-> SubImage(image, 0, 0, image.width, h_index), dx |-> 0, dy |-> 0],
          [image |-> SubImage(image, 0, h_index, image.width, image.height - h_index),
           dx |-> 0, dy |-> h_index] >>
  ELSE << [image |-> SubImage(image, 0, 0, v_index, image.height), dx |-> 0, dy |-> 0],
          [image |-> SubImage(image, v_index, 0, image.width - v_index, image.height),
           dx |-> v_index, dy |-> 0] >>

\* images.append(&mut g_a); images.append(&mut g_b);
AppendReversed(g_a, g_b) == g_b \o g_a

Append2(g_a, g_b) == g_a \o g_b

\* The straight-line part of one guillotine call, from entry to its return
\* or to rayon::join: what it decides for `image`.
\*   "gate"  : returned Vec::new() at the size check
\*   "panic" : a profiler's unwrap met an empty score list
\*   "leaf"  : returned vec![image]
\*   "split" : built sub_a and sub_b
Decide(image, t, m) ==
  IF TooSmall(image, m)
  THEN [kind |-> "gate", horizontal |-> FALSE, h_index |-> 0, v_index |-> 0]
  ELSE LET h == DifferenceHorizontal(image)
           v == DifferenceVertical(image)
       IN  IF h.panicked \/ v.panicked
           THEN [kind |-> "panic", horizontal |-> FALSE, h_index |-> h.index, v_index |-> v.index]
           ELSE LET horizontal == Horizontal(h.max, v.max)
                    max == IF horizontal THEN h.max ELSE v.max
                IN  [kind |-> IF Cut(max, t) THEN "split" ELSE "leaf",
                     horizontal |-> horizontal, h_index |-> h.index, v_index |-> v.index]

\* guillotine run on one thread (rayon::join is free to run sub_a and then
\* sub_b on the calling thread): the images returned, each with the offset
\* (x, y) of its region in the source image, whether the run panicked, and
\* how many regions the size check discarded.
RECURSIVE GuillotineSeq(_, _, _, _, _)
GuillotineSeq(image, x, y, t, m) ==
  LET d == Decide(image, t, m)
  IN  CASE d.kind = "gate" -> [panicked |-> FALSE, ret |-> << >>, discarded |-> 1]
        [] d.kind = "panic" -> [panicked |-> TRUE, ret |-> << >>, discarded |-> 0]
        [] d.kind = "leaf" ->
             [panicked |-> FALSE, ret |-> << [image |-> image, x |-> x, y |-> y] >>,
              discarded |-> 0]
        [] OTHER ->
             LET subs == SubImages(image, d.horizontal, d.h_index, d.v_index)
                 a == GuillotineSeq(subs[1].image, x + subs[1].dx, y + subs[1].dy, t, m)
                 b == GuillotineSeq(subs[2].image, x + subs[2].dx, y + subs[2].dy, t, m)
             IN  IF a.panicked \/ b.panicked
                 THEN [panicked |-> TRUE, ret |-> << >>, discarded |-> 0]
                 ELSE [panicked |-> FALSE, ret |-> Append2(a.ret, b.ret),
                       discarded |-> a.discarded + b.discarded]

\* ------------------------------------------------------------------ state
VARIABLES
  source,     \* the image main passed to guillotine (never changes)
  threshold,  \* the threshold argument, the same in every call
  min_size,   \* the min_size argument, the same in every call
  calls       \* the guillotine calls made so far, by their place in the call tree

vars == << source, threshold, min_size, calls >>

\* A call is named by the path to it: << >> is the call main made, and
\* Append(c, 1), Append(c, 2) are the two closures of c's rayon::join.
Root == << >>
ChildA(c) == Append(c, 1)
ChildB(c) == Append(c, 2)
Parent(c) == SubSeq(c, 1, Len(c) - 1)

\* A call's frame: its image (owned by it), the offset (x, y) of that image
\* in the source, where the call stands (pc), its locals, whether it has
\* invoked the profilers, and the Vec it returned.
\*   pc: "start" (not yet run), "join" (inside rayon::join), "returned",
\*       "panicked" (unwound)
NewCall(image, x, y) ==
  [image |-> image, x |-> x, y |-> y, pc |-> "start", horizontal |-> FALSE,
   h_index |-> 0, v_index |-> 0, profiled |-> FALSE, ret |-> << >>]

\* ------------------------------------------------------------------ inputs
ImagesOf(w, h) ==
  { [width |-> w, height |-> h, data |-> d] : d \in [1 .. h -> [1 .. w -> Palette]] }

Sizes == { wh \in (1 .. MaxWidth) \X (1 .. MaxHeight) : wh[1] * wh[2] <= MaxPixels }

\* The input images: every two-colour image of each size whose first pixel is
\* Black.  (Exchanging the two colours of an image changes no score, every
\* score being a sum of absolute differences, so the images whose first pixel
\* is White run the same way.)
Inputs == { image \in UNION { ImagesOf(wh[1], wh[2]) : wh \in Sizes } :
              GetPixel(image, 0, 0) = Black }

\* The image of the worked example: 2 * min_size wide, min_size high, one
\* colour but for a fully contrasting line, one pixel wide, at column min_size.
ExampleWidth == 2 * MainMinSize
ExampleHeight == MainMinSize
ExampleLine == MainMinSize
ExampleImage ==
  [width |-> ExampleWidth, height |-> ExampleHeight,
   data |-> [r \in 1 .. ExampleHeight |->
              [c \in 1 .. ExampleWidth |-> IF c - 1 = ExampleLine THEN Black ELSE White]]]

Init ==
  /\ \/ /\ source \in Inputs
        /\ threshold \in Thresholds
        /\ min_size \in 0 .. MaxMinSize
     \/ /\ source = ExampleImage
        /\ threshold = MainThreshold
        /\ min_size = MainMinSize
  /\ calls = [c \in {Root} |-> NewCall(source, 0, 0)]

\* ----------------------------------------------------------------- actions
\* A call runs once it has been made and while its caller waits in join.
Runnable(c) ==
  /\ calls[c].pc = "start"
  /\ c = Root \/ calls[Parent(c)].pc = "join"

\* if width < min_size || height < min_size { return Vec::new(); }
GateReject(c) ==
  /\ Runnable(c)
  /\ Decide(calls[c].image, threshold, min_size).kind = "gate"
  /\ calls' = [calls EXCEPT ![c].pc = "returned", ![c].ret = << >>]
  /\ UNCHANGED << source, threshold, min_size >>

\* A profiler's unwrap meets an empty score list: the call unwinds.
ProfilePanic(c) ==
  LET d == Decide(calls[c].image, threshold, min_size)
  IN  /\ Runnable(c)
      /\ d.kind = "panic"
      /\ calls' = [calls EXCEPT ![c].pc = "panicked", ![c].profiled = TRUE]
      /\ UNCHANGED << source, threshold, min_size >>

\* if !cut { return vec![image]; }
NoCut(c) ==
  LET d == Decide(calls[c].image, threshold, min_size)
  IN  /\ Runnable(c)
      /\ d.kind = "leaf"
      /\ calls' = [calls EXCEPT ![c].pc = "returned", ![c].profiled = TRUE,
                                ![c].horizontal = d.horizontal,
                                ![c].h_index = d.h_index, ![c].v_index = d.v_index,
                                ![c].ret = << [image |-> calls[c].image,
                                               x |-> calls[c].x, y |-> calls[c].y] >>]
      /\ UNCHANGED << source, threshold, min_size >>

\* The cut is accepted: sub_a and sub_b are built and handed to rayon::join.
Split(c) ==
  LET d == Decide(calls[c].image, threshold, min_size)
      subs == SubImages(calls[c].image, d.horizontal, d.h_index, d.v_index)
      frame == [calls[c] EXCEPT !.pc = "join", !.profiled = TRUE,
                                !.horizontal = d.horizontal,
                                !.h_index = d.h_index, !.v_index = d.v_index]
  IN  /\ Runnable(c)
      /\ d.kind = "split"
      /\ calls' = [k \in DOMAIN calls \cup {ChildA(c), ChildB(c)} |->
                    IF k = c THEN frame
                    ELSE IF k = ChildA(c)
                    THEN NewCall(subs[1].image, calls[c].x + subs[1].dx, calls[c].y + subs[1].dy)
                    ELSE IF k = ChildB(c)
                    THEN NewCall(subs[2].image, calls[c].x + subs[2].dx, calls[c].y + subs[2].dy)
                    ELSE calls[k]]
      /\ UNCHANGED << source, threshold, min_size >>

\* rayon::join has both results.
JoinReady(c) ==
  /\ calls[c].pc = "join"
  /\ calls[ChildA(c)].pc = "returned"
  /\ calls[ChildB(c)].pc = "returned"

\* The two lists are appended, g_a first, and returned.
Join(c) ==
  /\ JoinReady(c)
  /\ calls' = [calls EXCEPT ![c].pc = "returned",
                            ![c].ret = Append2(calls[ChildA(c)].ret, calls[ChildB(c)].ret)]
  /\ UNCHANGED << source, threshold, min_size >>

\* rayon::join resumes a closure's panic in the caller.  When sub_a's closure
\* (run by the caller itself) panicked, sub_b's closure is dropped if no other
\* thread has taken it, and awaited otherwise; when sub_b's closure panicked,
\* sub_a's closure has to end first.
UnwindReady(c) ==
  /\ calls[c].pc = "join"
  /\ \/ /\ calls[ChildA(c)].pc = "panicked"
        /\ calls[ChildB(c)].pc \in {"start", "returned", "panicked"}
     \/ /\ calls[ChildB(c)].pc = "panicked"
        /\ calls[ChildA(c)].pc \in {"returned", "panicked"}

Unwind(c) ==
  /\ UnwindReady(c)
  /\ calls' = [calls EXCEPT ![c].pc = "panicked"]
  /\ UNCHANGED << source, threshold, min_size >>

Next ==
  \/ \E c \in DOMAIN calls : GateReject(c)
  \/ \E c \in DOMAIN calls : ProfilePanic(c)
  \/ \E c \in DOMAIN calls : NoCut(c)
  \/ \E c \in DOMAIN calls : Split(c)
  \/ \E c \in DOMAIN calls : Join(c)
  \/ \E c \in DOMAIN calls : Unwind(c)

Spec == Init /\ [][Next]_vars

\* ------------------------------------------------- words for the properties
Returned == calls[Root].pc = "returned"
Panicked == calls[Root].pc = "panicked"
Finished == Returned \/ Panicked

HasChildren(c) == ChildA(c) \in DOMAIN calls

\* The calls that ended at the size check: their regions are discarded.
Discarded == { c \in DOMAIN calls : calls[c].pc = "returned" /\ ~calls[c].profiled }

SourcePixels == (0 .. source.width - 1) \X (0 .. source.height - 1)

InRect(p, x, y, w, h) == x <= p[1] /\ p[1] < x + w /\ y <= p[2] /\ p[2] < y + h

\* How many of the returned sub-images hold source pixel p.
Emitting(p) ==
  Cardinality({ i \in 1 .. Len(calls[Root].ret) :
                  LET part == calls[Root].ret[i]
                  IN  InRect(p, part.x, part.y, part.image.width, part.image.height) })

\* How many discarded regions hold source pixel p.
Discarding(p) ==
  Cardinality({ c \in Discarded :
                  InRect(p, calls[c].x, calls[c].y, calls[c].image.width, calls[c].image.height) })

Tie(a, b) == ~ScoreGT(a, b) /\ ~ScoreGT(b, a)

Uniform(image) ==
  \A x \in 0 .. image.width - 1 : \A y \in 0 .. image.height - 1 :
    GetPixel(image, x, y) = GetPixel(image, 0, 0)

IsExample == source = ExampleImage /\ threshold = MainThreshold /\ min_size = MainMinSize

\* ------------------------------------------------------------------ claims

\* C1 (as stated): after guillotine returns, every pixel of the source lies in
\* exactly one returned sub-image.
PartitionComplete == Returned => \A p \in SourcePixels : Emitting(p) = 1

\* C1 (amended): after guillotine returns, every pixel of the source lies in
\* exactly one region that is either a returned sub-image or a region the size
\* check discarded; a returned sub-image holds the source's pixels of its
\* region, and a discarded region is narrower or shorter than min_size.  So no
\* pixel is returned twice, and the pixels dropped are those of the discarded
\* regions.
PartitionUpToDiscards ==
  Returned =>
    /\ \A p \in SourcePixels : Emitting(p) + Discarding(p) = 1
    /\ \A i \in 1 .. Len(calls[Root].ret) :
         LET part == calls[Root].ret[i]
         IN  part.image = SubImage(source, part.x, part.y, part.image.width, part.image.height)
    /\ \A c \in Discarded :
         calls[c].image.width < min_size \/ calls[c].image.height < min_size

\* C1 witness: a run returned sub-images and also discarded a region that a
\* cut produced.
PartitionWitness ==
  /\ Returned
  /\ Len(calls[Root].ret) >= 1
  /\ Discarded # {}
  /\ \E p \in SourcePixels : Emitting(p) = 0

ExampleLeft == [image |-> SubImage(ExampleImage, 0, 0, MainMinSize, MainMinSize), x |-> 0, y |-> 0]
ExampleRight ==
  [image |-> SubImage(ExampleImage, ExampleLine, 0, MainMinSize, MainMinSize),
   x |-> ExampleLine, y |-> 0]

\* C2 (as stated): the worked example returns the left and the right
\* min_size x min_size regions, in that order.
ExampleYieldsTwo == (IsExample /\ Finished) => calls[Root].ret = << ExampleLeft, ExampleRight >>

\* C2 (amended): the worked example returns exactly one sub-image, the left
\* region of columns 0 .. 99; the first cut falls after the line (column 101),
\* and the line's column and the 99 columns right of it are discarded.
ExampleYieldsLeftOnly ==
  (IsExample /\ Finished) => Returned /\ calls[Root].ret = << ExampleLeft >>

\* C2 witness: the run on the worked example has returned after cutting.
ExampleWitness == IsExample /\ Returned /\ HasChildren(Root)

\* C3 (as stated): when the strongest horizontal and vertical scores are equal
\* and the image is cut, it is cut into a top and a bottom region.
TieCutsHorizontally ==
  \A c \in DOMAIN calls :
    (HasChildren(c) /\ Tie(DifferenceHorizontal(calls[c].image).max,
                           DifferenceVertical(calls[c].image).max)) =>
      /\ calls[c].horizontal
      /\ calls[ChildA(c)].image =
           SubImage(calls[c].image, 0, 0, calls[c].image.width, calls[c].h_index)

\* C3 (amended): when the strongest horizontal and vertical scores are equal
\* and the image is cut, it is cut along the vertical axis, into a left region
\* of columns [0, v_index) and a right region of columns [v_index, width).
TieCutsVertically ==
  \A c \in DOMAIN calls :
    (HasChildren(c) /\ Tie(DifferenceHorizontal(calls[c].image).max,
                           DifferenceVertical(calls[c].image).max)) =>
      /\ ~calls[c].horizontal
      /\ calls[ChildA(c)].image =
           SubImage(calls[c].image, 0, 0, calls[c].v_index, calls[c].image.height)
      /\ calls[ChildB(c)].image =
           SubImage(calls[c].image, calls[c].v_index, 0,
                    calls[c].image.width - calls[c].v_index, calls[c].image.height)

\* C3 witness: an image was cut whose two strongest scores are equal.
TieWitness ==
  \E c \in DOMAIN calls :
    /\ HasChildren(c)
    /\ Tie(DifferenceHorizontal(calls[c].image).max, DifferenceVertical(calls[c].image).max)

\* C4 (as stated): a higher threshold never returns more sub-images.
MonotonicThreshold ==
  Returned =>
    \A t2 \in Thresholds :
      t2 >= threshold =>
        Len(GuillotineSeq(source, 0, 0, t2, min_size).ret) <= Len(calls[Root].ret)

\* C4 (amended): when the run with threshold t1 returns, the run with any
\* threshold t2 >= t1 returns too, and the number of regions it ends with,
\* returned sub-images and discarded regions together, is not larger.
MonotonicRegions ==
  Returned =>
    \A t2 \in Thresholds :
      t2 >= threshold =>
        LET r == GuillotineSeq(source, 0, 0, t2, min_size)
        IN  /\ ~r.panicked
            /\ Len(r.ret) + r.discarded <= Len(calls[Root].ret) + Cardinality(Discarded)

\* C4 witness: a run returned, and a higher threshold ends with fewer regions.
MonotonicWitness ==
  /\ Returned
  /\ \E t2 \in Thresholds :
       /\ t2 > threshold
       /\ LET r == GuillotineSeq(source, 0, 0, t2, min_size)
          IN  Len(r.ret) + r.discarded < Len(calls[Root].ret) + Cardinality(Discarded)

\* C5 (as stated): a call on a one-colour image at least min_size wide and
\* high returns that image alone, and makes no further call.
UniformImageReturnedWhole ==
  \A c \in DOMAIN calls :
    ( /\ Uniform(calls[c].image)
      /\ calls[c].image.width >= min_size
      /\ calls[c].image.height >= min_size
      /\ calls[c].pc # "start" ) =>
      /\ calls[c].pc = "returned"
      /\ calls[c].ret = << [image |-> calls[c].image, x |-> calls[c].x, y |-> calls[c].y] >>
      /\ ~HasChildren(c)

\* C6: a call on an image narrower or shorter than min_size returns the empty
\* list, without invoking a profiler and without a further call.
SubMinimumRejected ==
  \A c \in DOMAIN calls :
    ( /\ calls[c].image.width < min_size \/ calls[c].image.height < min_size
      /\ calls[c].pc # "start" ) =>
      /\ calls[c].pc = "returned"
      /\ calls[c].ret = << >>
      /\ ~calls[c].profiled
      /\ ~HasChildren(c)

\* C6 witness: a call on a region a cut made too small has ended.
SubMinimumWitness ==
  \E c \in DOMAIN calls :
    /\ c # Root
    /\ calls[c].image.width < min_size \/ calls[c].image.height < min_size
    /\ calls[c].pc # "start"

\* An accepted split of call c: both regions are non-empty, strictly smaller
\* than c's image along the cut axis, together as long as it, and as large as
\* it along the other axis.
Shrinks(c) ==
  LET parent == calls'[c].image
      a == calls'[ChildA(c)].image
      b == calls'[ChildB(c)].image
  IN  IF calls'[c].horizontal
      THEN /\ a.width = parent.width /\ b.width = parent.width
           /\ a.height >= 1 /\ b.height >= 1
           /\ a.height + b.height = parent.height
      ELSE /\ a.height = parent.height /\ b.height = parent.height
           /\ a.width >= 1 /\ b.width >= 1
           /\ a.width + b.width = parent.width

\* What is left to do, counted in steps: a call not yet run on an image of n
\* pixels makes at most 2n - 1 calls (itself included) of at most two steps
\* each; a call inside join has one step left; an ended call has none.
Weight(c) ==
  CASE calls[c].pc = "start" -> 4 * calls[c].image.width * calls[c].image.height - 2
    [] calls[c].pc = "join" -> 1
    [] OTHER -> 0

RECURSIVE SumWeights(_)
SumWeights(cs) ==
  IF cs = {} THEN 0
  ELSE LET c == CHOOSE k \in cs : TRUE IN Weight(c) + SumWeights(cs \ {c})

Measure == SumWeights(DOMAIN calls)

\* Some call can take a step.
CanStep == \E c \in DOMAIN calls : Runnable(c) \/ JoinReady(c) \/ UnwindReady(c)

\* C7: every run of guillotine finishes: a run that has not finished can always
\* take a step, every step lowers a measure that is never negative, and every
\* accepted split yields two non-empty regions, strictly smaller than their
\* parent along the cut axis and unchanged along the other.
Termination ==
  /\ [](Finished \/ CanStep)
  /\ [](Measure >= 0)
  /\ [][Measure' < Measure]_vars
  /\ [][\A c \in DOMAIN calls :
          (calls[c].pc = "start" /\ calls'[c].pc = "join") => Shrinks(c)]_vars

\* C7 witness: a run that split its image, and a part of it again, has finished.
TerminationWitness ==
  /\ Finished
  /\ \E c \in DOMAIN calls : c # Root /\ HasChildren(c)

\* C8: the list a run returns is the list the one-thread run returns (and a
\* run panics only if the one-thread run does); every call that joined
\* returned its first region's results and then its second region's; and no
\* step writes a call's image, or the list of a call other than the one that
\* returns in that step.
ForkJoinDeterminism ==
  /\ [](Returned =>
          LET r == GuillotineSeq(source, 0, 0, threshold, min_size)
          IN  ~r.panicked /\ calls[Root].ret = r.ret)
  /\ [](Panicked => GuillotineSeq(source, 0, 0, threshold, min_size).panicked)
  /\ [](\A c \in DOMAIN calls :
          (calls[c].pc = "returned" /\ HasChildren(c)) =>
            calls[c].ret = calls[ChildA(c)].ret \o calls[ChildB(c)].ret)
  /\ [][\A c \in DOMAIN calls :
          /\ calls'[c].image = calls[c].image
          /\ calls'[c].ret # calls[c].ret =>
               calls[c].pc # "returned" /\ calls'[c].pc = "returned"]_vars

\* C8 witness: the second closure of a join has returned sub-images while the
\* first is still inside a join of its own, and the run goes on to return.
ForkJoinWitness ==
  /\ calls[Root].pc = "join"
  /\ calls[ChildB(Root)].pc = "returned"
  /\ Len(calls[ChildB(Root)].ret) >= 1
  /\ calls[ChildA(Root)].pc = "join"
  /\ ~GuillotineSeq(source, 0, 0, threshold, min_size).panicked
  /\ Len(GuillotineSeq(calls[ChildA(Root)].image, 0, 0, threshold, min_size).ret) >= 1

\* The place `index` holds a maximum of the score list.
IsMaximum(values, index) ==
  /\ index \in 1 .. Len(values)
  /\ \A j \in 1 .. Len(values) : ~ScoreGT(values[j], values[index])

\* C9 (as stated): the profilers return the place of the first pair with the
\* maximum score.
ProfilerPicksFirstMaximum ==
  \A c \in DOMAIN calls :
    (calls[c].profiled /\ calls[c].pc # "panicked") =>
      LET hv == HorizontalValues(calls[c].image)
          vv == VerticalValues(calls[c].image)
      IN  /\ IsMaximum(hv, calls[c].h_index)
          /\ \A j \in 1 .. (calls[c].h_index - 1) : ScoreGT(hv[calls[c].h_index], hv[j])
          /\ IsMaximum(vv, calls[c].v_index)
          /\ \A j \in 1 .. (calls[c].v_index - 1) : ScoreGT(vv[calls[c].v_index], vv[j])

\* C9 (amended): when several adjacent line pairs share the maximum score, the
\* profilers return the cut position of the last such pair (highest index i,
\* returned as i + 1).
ProfilerPicksLastMaximum ==
  \A c \in DOMAIN calls :
    (calls[c].profiled /\ calls[c].pc # "panicked") =>
      LET hv == HorizontalValues(calls[c].image)
          vv == VerticalValues(calls[c].image)
      IN  /\ IsMaximum(hv, calls[c].h_index)
          /\ \A j \in (calls[c].h_index + 1) .. Len(hv) : ScoreGT(hv[calls[c].h_index], hv[j])
          /\ IsMaximum(vv, calls[c].v_index)
          /\ \A j \in (calls[c].v_index + 1) .. Len(vv) : ScoreGT(vv[calls[c].v_index], vv[j])

\* C9 witness: a profiled image has two row pairs and two column pairs that
\* share the maximum score of their axis.
ProfilerTieWitness ==
  \E c \in DOMAIN calls :
    /\ calls[c].profiled /\ calls[c].pc # "panicked"
    /\ LET hv == HorizontalValues(calls[c].image)
           vv == VerticalValues(calls[c].image)
       IN  /\ \E j \in 1 .. Len(hv) : j # calls[c].h_index /\ IsMaximum(hv, j)
           /\ \E j \in 1 .. Len(vv) : j # calls[c].v_index /\ IsMaximum(vv, j)

\* C10 (as stated): whenever a call invokes the profilers its image has at
\* least 2 rows and 2 columns, and no call panics.
GateProtectsProfiler ==
  \A c \in DOMAIN calls :
    /\ calls[c].profiled => calls[c].image.width >= 2 /\ calls[c].image.height >= 2
    /\ calls[c].pc # "panicked"

====
